---- MODULE Spec2Model ----
(***************************************************************************)
(* AgriBot-AI query orchestration.                                         *)
(*                                                                         *)
(*   Frontend/src/agents/cordinates.py   AgentCoordinator  (Spec, FairSpec)*)
(*   Backend/app/services/ai_agents.py   AIAgentService    (SvcSpec)       *)
(*                                                                         *)
(* Python dicts are functions whose DOMAIN is the set of keys present.     *)
(* Confidences are in tenths (0.5 is 5).  Texts are records                *)
(* [text, lang] so that a translation changes the value it is applied to.  *)
(***************************************************************************)
EXTENDS Integers, Sequences, FiniteSets, TLC

VARIABLES
    pc,               \* position of AgentCoordinator.process_query
    query,            \* the query text of the request in progress
    lang,             \* detected_language
    english_query,    \* english_query
    analysis,         \* query_analysis: parsed JSON [isobj, d]
    tasks,            \* the coroutines handed to asyncio.gather, in order
    calls,            \* per task: Pending, Stalled, or the value it returned
    agent_responses,  \* mapping built by _route_to_agents
    genOut,           \* what the generation step did for _synthesize_responses
    synthesized,      \* synthesized_response
    result,           \* outcome of process_query: [kind, value]
    memory,           \* self.memory: saved exchanges, oldest first
    nreq,             \* requests started so far
    svc,              \* AIAgentService.process_query: its locals and outcome
    active_sessions,  \* query_handler.active_sessions: session id -> session
    handlers,         \* the coroutines of the /query handler: locals, outcome
    nquery,           \* requests to /query received so far
    nsess,            \* session ids generated so far
    clock,            \* what datetime.now() reads
    syn,              \* _synthesize_responses called on its own: arguments,
                      \* the generation output, the values returned so far
    history,          \* the last answer of GET /session/{session_id}/history
    health            \* AIAgentService.get_agent_status: its loop and result

vars == <<pc, query, lang, english_query, analysis, tasks, calls,
          agent_responses, genOut, synthesized, result, memory, nreq, svc,
          active_sessions, handlers, nquery, nsess, clock, syn, history,
          health>>

endVars == <<history, health>>

synVars == <<clock, syn>>

webVars == <<active_sessions, handlers, nquery, nsess>>

coordVars == <<pc, query, lang, english_query, analysis, tasks, calls,
               agent_responses, genOut, synthesized, result, memory, nreq>>

----------------------------------------------------------------------------
(* Bounds and input domains *)

MaxRequests == 2

\* readings of the clock that differ in one run
MaxClock == 2

\* requests to /query in one run with overlapping requests
MaxQueries == 4

\* ConversationBufferWindowMemory(k=5): the exchanges the window holds
HistoryWindow == 5

\* the coroutines of the /query handler that can be in flight together
Handlers == {"h1", "h2"}

\* the values uuid4 gives to get_session_id, in the order it gives them
SessionIds == <<"s1", "s2">>

\* request.query as the client sent it
RawQueries == {"", "   ", " rain "}

Languages == {"en", "hi"}

Queries == {[text |-> "q_farming", lang |-> "en"],
            [text |-> "q_kheti", lang |-> "hi"]}

AgentConfValues == {2, 9}

GenConfValues == {3, 12}

QueryTypes == {"general", "weather", "irrigation"}

RequiredChoices == {{}, {"weather_agent"},
                    {"finance_agent", "pest_disease_agent"},
                    {"soil_agent"}}

----------------------------------------------------------------------------
(* Dict helpers *)

Has(d, k) == k \in DOMAIN d

Get(d, k, default) == IF k \in DOMAIN d THEN d[k] ELSE default

NoDict == [none |-> TRUE]

Text(t, l) == [text |-> t, lang |-> l]

NoText == Text("", "")

Pending == [pending |-> TRUE]

Stalled == [stalled |-> TRUE]

Returned(v) == [kind |-> "return", value |-> v]

Raised(e) == [kind |-> "raise", value |-> [error |-> e]]

NoResult == [kind |-> "none", value |-> NoDict]

----------------------------------------------------------------------------
(* Language detector (external): detect_language, translate_to_english,    *)
(* translate_from_english                                                  *)

DetectLanguage(q) == q.lang

TranslateToEnglish(q) == Text(q.text, "en")

TranslateFromEnglish(t, l) == Text(t.text, l)

----------------------------------------------------------------------------
(* AgentCoordinator.process_query: the except branch *)

ErrorResponse(e) ==
    [answer |-> Text("technical_problem", "hi"),
     confidence |-> 0,
     sources |-> <<>>,
     error |-> e,
     language |-> "hi"]

OnException_Reraise(e) == Raised(e)

OnException(e) == Returned(ErrorResponse(e))

----------------------------------------------------------------------------
(* _analyze_query *)

DefaultAnalysis ==
    [isobj |-> TRUE,
     d |-> [type |-> "general", urgency |-> "medium",
            required_agents |-> {"crop_advisor"}]]

\* A completion of llm_interface.get_completion followed by json.loads:
\* the call raises, the text does not parse, or json.loads gives a value
\* (isobj: a dict; otherwise a list, a number, ...).
LlmRaise == [kind |-> "raise", isobj |-> FALSE, d |-> NoDict]

LlmUnparseable == [kind |-> "unparseable", isobj |-> FALSE, d |-> NoDict]

LlmNonObject == [kind |-> "json", isobj |-> FALSE, d |-> NoDict]

LlmObject(dict) == [kind |-> "json", isobj |-> TRUE, d |-> dict]

AnalysisCompletions ==
    {LlmRaise, LlmUnparseable, LlmNonObject}
    \cup {LlmObject([type |-> t, required_agents |-> r]) :
            t \in QueryTypes, r \in RequiredChoices}
    \cup {LlmObject([type |-> t]) : t \in {"weather", "irrigation"}}
    \cup {LlmObject([required_agents |-> {"crop_advisor"}])}

AnalyzeQuery(completion) ==
    IF completion.kind # "json"
    THEN DefaultAnalysis
    ELSE [isobj |-> completion.isobj, d |-> completion.d]

----------------------------------------------------------------------------
(* _route_to_agents *)

AgentNames == <<"crop_advisor", "weather_agent", "finance_agent",
                "pest_disease_agent">>

Agents == {AgentNames[i] : i \in 1..Len(AgentNames)}

TypesOf(a) ==
    CASE a = "crop_advisor" -> {"crop_selection", "general"}
      [] a = "weather_agent" -> {"weather"}
      [] a = "finance_agent" -> {"finance", "market"}
      [] a = "pest_disease_agent" -> {"pest_disease"}

RequiredAgents(an) == Get(an.d, "required_agents", {"crop_advisor"})

\* analysis.get on a non-dict, or analysis['type'] on a dict without 'type'
\* reached because some `name in required_agents` was false
RouteRaises(an) ==
    \/ ~an.isobj
    \/ /\ ~Has(an.d, "type")
       /\ \E a \in Agents : a \notin RequiredAgents(an)

Selected(an, a) ==
    \/ a \in RequiredAgents(an)
    \/ Has(an.d, "type") /\ an.d["type"] \in TypesOf(a)

SelectTasks(an) == SelectSeq(AgentNames, LAMBDA a : Selected(an, a))

\* the _call_<agent> wrappers: an exception of the agent becomes an entry
WrapperError(a) == [error |-> "exc", agent |-> a]

\* an agent's own result on success
AgentSuccess(a, c) ==
    [answer |-> Text(a, "en"),
     confidence |-> c,
     recommendations |-> <<a>>,
     sources |-> <<a>>,
     agent |-> a]

\* crop_advisor.get_advice catches its own failure and reports it
AgentCaught(a) ==
    [answer |-> Text("sorry", "hi"),
     confidence |-> 0,
     error |-> "exc",
     agent |-> a]

AllDone_Any(cs) ==
    \E i \in DOMAIN cs : cs[i] \notin {Pending, Stalled}

\* asyncio.gather resumes its awaiter when every task has finished
AllDone(cs) ==
    \A i \in DOMAIN cs : cs[i] \notin {Pending, Stalled}

CollectResults_DropErrors(results) ==
    LET keep == {i \in DOMAIN results : ~Has(results[i], "error")}
    IN  [k \in {AgentNames[i] : i \in keep} |->
            results[CHOOSE i \in keep : AgentNames[i] = k]]

\* the loop over enumerate(results): the key is agent_names[i]
CollectResults(results) ==
    LET keep == {i \in DOMAIN results :
                    i <= Len(AgentNames) /\ ~Has(results[i], "exception")}
    IN  [k \in {AgentNames[i] : i \in keep} |->
            results[CHOOSE i \in keep : AgentNames[i] = k]]

----------------------------------------------------------------------------
(* _synthesize_responses and _get_best_agent_response *)

FallbackConfidence == 5

Priority == <<"crop_advisor", "weather_agent", "finance_agent",
              "pest_disease_agent">>

NoValidResponse ==
    [answer |-> Text("No valid response available", "en"), confidence |-> 0]

\* list(agent_responses.keys()): insertion order is the order of agent_names
KeysOf(ar) == SelectSeq(AgentNames, LAMBDA a : a \in DOMAIN ar)

GetBestAgentResponse_AnyEntry(ar) ==
    LET ok == {i \in 1..Len(Priority) : Priority[i] \in DOMAIN ar}
    IN  IF ok # {}
        THEN ar[Priority[CHOOSE i \in ok : \A j \in ok : i <= j]]
        ELSE NoValidResponse

GetBestAgentResponse_WeatherFirst(ar) ==
    LET order == <<"weather_agent", "crop_advisor", "finance_agent",
                   "pest_disease_agent">>
        ok == {i \in 1..Len(order) :
                  order[i] \in DOMAIN ar /\ ~Has(ar[order[i]], "error")}
    IN  IF ok # {}
        THEN ar[order[CHOOSE i \in ok : \A j \in ok : i <= j]]
        ELSE NoValidResponse

GetBestAgentResponse(ar) ==
    LET ok == {i \in 1..Len(Priority) :
                  Priority[i] \in DOMAIN ar /\ ~Has(ar[Priority[i]], "error")}
        rest == {k \in DOMAIN ar : ~Has(ar[k], "error")}
    IN  IF ok # {}
        THEN ar[Priority[CHOOSE i \in ok : \A j \in ok : i <= j]]
        ELSE IF rest # {}
        THEN ar[CHOOSE k \in rest : TRUE]
        ELSE NoValidResponse

\* What the generation step can give to _synthesize_responses.
GenCompletions ==
    {LlmRaise, LlmUnparseable, LlmNonObject}
    \cup {LlmObject([answer |-> Text("synthesis", "en"), confidence |-> c,
                     sources |-> <<"llm">>, key_recommendations |-> <<"llm">>]) :
            c \in GenConfValues}
    \cup {LlmObject([confidence |-> 3, sources |-> <<"llm">>]),
          LlmObject([answer |-> Text("synthesis", "en"), sources |-> <<"llm">>])}

\* the try branch returns; anything else ends in the except branch
GenSucceeded(gen) == gen.kind = "json" /\ gen.isobj

SynthesisFallback_KeepConfidence(ar) ==
    LET best == GetBestAgentResponse(ar)
    IN  [answer |-> Get(best, "answer", Text("difficulty", "hi")),
         confidence |-> Get(best, "confidence", FallbackConfidence),
         sources |-> Get(best, "sources", <<>>),
         key_recommendations |-> Get(best, "recommendations", <<>>),
         caveats |-> <<"Fallback response due to synthesis error">>,
         follow_up_questions |-> <<>>]

SynthesisFallback(ar) ==
    LET best == GetBestAgentResponse(ar)
    IN  [answer |-> Get(best, "answer", Text("difficulty", "hi")),
         confidence |-> FallbackConfidence,
         sources |-> Get(best, "sources", <<>>),
         key_recommendations |-> Get(best, "recommendations", <<>>),
         caveats |-> <<"Fallback response due to synthesis error">>,
         follow_up_questions |-> <<>>]

MaxOf(S) == CHOOSE m \in S : \A x \in S : x <= m

\* the entries of the mapping that carry no 'error' key
Successes(ar) == {k \in DOMAIN ar : ~Has(ar[k], "error")}

SynthesizeResponses_BestOfAgents(ar, gen, now) ==
    LET r == IF GenSucceeded(gen)
             THEN [synthesis_timestamp |-> now, agents_consulted |-> KeysOf(ar)]
                    @@ gen.d
             ELSE SynthesisFallback(ar)
        cs == {ar[k]["confidence"] : k \in Successes(ar)}
    IN  IF cs = {} THEN r
        ELSE [confidence |-> MaxOf(cs \cup {Get(r, "confidence", 0)})] @@ r

SynthesizeResponses_StampedFallback(ar, gen, now) ==
    [synthesis_timestamp |-> now]
      @@ (IF GenSucceeded(gen)
          THEN [agents_consulted |-> KeysOf(ar)] @@ gen.d
          ELSE SynthesisFallback(ar))

\* the try branch stamps the parsed output with datetime.now() and the keys
\* of the mapping; the except branch builds the fallback
SynthesizeResponses(ar, gen, now) ==
    IF GenSucceeded(gen)
    THEN [synthesis_timestamp |-> now, agents_consulted |-> KeysOf(ar)]
           @@ gen.d
    ELSE SynthesisFallback(ar)

----------------------------------------------------------------------------
(* response_formatter.format_response and memory.save_context: collaborators *)
(* of process_query whose code is outside these sources.                     *)

FormatOutcomes == {"ok", "partial", "raise"}

\* "ok" keeps the synthesized fields; "partial" is a formatter that leaves
\* 'sources' out of what it returns
FormatResponse(s, outcome) ==
    LET r == [k \in DOMAIN s \ {"key_recommendations"} |-> s[k]]
               @@ [recommendations |-> Get(s, "key_recommendations", <<>>)]
    IN  IF outcome = "ok" THEN r
        ELSE [k \in DOMAIN r \ {"sources"} |-> r[k]]

SaveContext(mem, q, out) == Append(mem, [input |-> q, output |-> out])

\* the dict returned at the end of the try branch
FinalResponse(f, l, ar, an) ==
    [answer |-> f["answer"],
     confidence |-> f["confidence"],
     sources |-> f["sources"],
     recommendations |-> Get(f, "recommendations", <<>>),
     follow_up_questions |-> Get(f, "follow_up_questions", <<>>),
     language |-> l,
     agents_used |-> KeysOf(ar),
     query_type |-> an.d["type"],
     urgency |-> Get(an.d, "urgency", "normal")]

----------------------------------------------------------------------------
(* AgentCoordinator.process_query as a state machine *)

NoCompletion == [kind |-> "none", isobj |-> FALSE, d |-> NoDict]

NoAnalysis == [isobj |-> FALSE, d |-> NoDict]

Unbound == "<unbound>"

\* no similarity has been computed
NoSimilarity == [weather |-> 0, crop |-> 0, financial |-> 0, policy |-> 0]

\* AIAgentService.process_query before it is called
SvcIdle ==
    [pc |-> "idle", query |-> NoText, words |-> {}, original_language |-> Unbound,
     processed_query |-> NoText, location |-> "", agent_type |-> "",
     similarity |-> NoSimilarity,
     context_used |-> -1, response |-> NoDict, failed |-> "",
     result |-> NoResult]

\* _synthesize_responses has not been called on its own
SynIdle == [ar |-> <<>>, gen |-> NoCompletion, out |-> <<>>]

SynIdleInit ==
    /\ clock = 0
    /\ syn = SynIdle

\* a coroutine of the /query handler that has not run yet
HandlerIdle ==
    [pc |-> "idle", id |-> 0, raw |-> "", query |-> "", requested |-> "",
     session_id |-> "", status |-> 0]

\* GET /session/{session_id}/history has not been asked
NoHistory == [session_id |-> "", status |-> 0]

\* get_agent_status has not been called
HealthIdle == [i |-> 0, status |-> <<>>, result |-> NoDict]

\* the module has been imported: active_sessions = {}
WebInit ==
    /\ history = NoHistory
    /\ active_sessions = <<>>
    /\ handlers = [h \in Handlers |-> HandlerIdle]
    /\ nquery = 0
    /\ nsess = 0

\* one client that waits for each answer before its next request: a single
\* coroutine of the handler
SerialWebInit ==
    /\ history = NoHistory
    /\ active_sessions = <<>>
    /\ handlers = [h \in {"h1"} |-> HandlerIdle]
    /\ nquery = 0
    /\ nsess = 0

\* requests followed in one run: a serial client is followed for one
\* request more than the window holds
QueryBudget == IF DOMAIN handlers = Handlers THEN MaxQueries
               ELSE HistoryWindow + 1

Init ==
    /\ SynIdleInit
    /\ WebInit
    /\ pc = "idle"
    /\ query = NoText
    /\ lang = ""
    /\ english_query = NoText
    /\ analysis = NoAnalysis
    /\ tasks = <<>>
    /\ calls = <<>>
    /\ agent_responses = <<>>
    /\ genOut = NoCompletion
    /\ synthesized = NoDict
    /\ result = NoResult
    /\ memory = <<>>
    /\ nreq = 0
    /\ svc = SvcIdle
    /\ health = HealthIdle

\* an exception inside the try block of process_query
Fail(e) ==
    /\ pc' = "done"
    /\ result' = OnException(e)

\* process_query is entered: detect_language
Detect ==
    /\ pc \in {"idle", "done"}
    /\ nreq < MaxRequests
    /\ nreq' = nreq + 1
    /\ \E q \in Queries, ok \in BOOLEAN :
          /\ query' = q
          /\ english_query' = q
          /\ analysis' = NoAnalysis
          /\ tasks' = <<>>
          /\ calls' = <<>>
          /\ agent_responses' = <<>>
          /\ genOut' = NoCompletion
          /\ synthesized' = NoDict
          /\ IF ok
             THEN /\ lang' = DetectLanguage(q)
                  /\ pc' = IF DetectLanguage(q) # "en"
                           THEN "translate_query" ELSE "analyze"
                  /\ result' = NoResult
             ELSE /\ lang' = ""
                  /\ Fail("detect_language")
    /\ UNCHANGED <<memory, svc, webVars, synVars, endVars>>

\* await translate_to_english
TranslateQuery ==
    /\ pc = "translate_query"
    /\ \E ok \in BOOLEAN :
          IF ok
          THEN /\ english_query' = TranslateToEnglish(query)
               /\ pc' = "analyze"
               /\ UNCHANGED result
          ELSE /\ Fail("translate_to_english")
               /\ UNCHANGED english_query
    /\ UNCHANGED <<query, lang, analysis, tasks, calls, agent_responses,
                   genOut, synthesized, memory, nreq, svc, webVars, synVars, endVars>>

\* await _analyze_query
Analyze ==
    /\ pc = "analyze"
    /\ \E c \in AnalysisCompletions : analysis' = AnalyzeQuery(c)
    /\ pc' = "route"
    /\ UNCHANGED <<query, lang, english_query, tasks, calls, agent_responses,
                   genOut, synthesized, result, memory, nreq, svc, webVars, synVars, endVars>>

\* _route_to_agents up to its await: the tasks are built; with no task the
\* function returns the empty mapping at once
Route ==
    /\ pc = "route"
    /\ IF RouteRaises(analysis)
       THEN /\ Fail("route")
            /\ UNCHANGED <<tasks, calls, agent_responses>>
       ELSE LET ts == SelectTasks(analysis)
            IN  /\ tasks' = ts
                /\ calls' = [i \in 1..Len(ts) |-> Pending]
                /\ IF ts = <<>>
                   THEN /\ agent_responses' = <<>>
                        /\ pc' = "synthesize"
                   ELSE /\ pc' = "gather"
                        /\ UNCHANGED agent_responses
                /\ UNCHANGED result
    /\ UNCHANGED <<query, lang, english_query, analysis, genOut, synthesized,
                   memory, nreq, svc, webVars, synVars, endVars>>

\* one agent's coroutine finishes with its advice
AgentReturns(i) ==
    /\ pc = "gather"
    /\ calls[i] = Pending
    /\ \E c \in AgentConfValues :
          calls' = [calls EXCEPT ![i] = AgentSuccess(tasks[i], c)]
    /\ UNCHANGED <<pc, query, lang, english_query, analysis, tasks,
                   agent_responses, genOut, synthesized, result, memory, nreq,
                   svc, webVars, synVars, endVars>>

\* one agent fails: it raises into its _call_ wrapper, or reports its own
\* failure as a dict with an 'error' key
AgentFails(i) ==
    /\ pc = "gather"
    /\ calls[i] = Pending
    /\ \E r \in {WrapperError(tasks[i])}
                \cup {AgentCaught(a) : a \in {tasks[i]} \cap {"crop_advisor"}} :
          calls' = [calls EXCEPT ![i] = r]
    /\ UNCHANGED <<pc, query, lang, english_query, analysis, tasks,
                   agent_responses, genOut, synthesized, result, memory, nreq,
                   svc, webVars, synVars, endVars>>

\* one agent's call blocks for ever (a request that is never answered)
AgentStalls(i) ==
    /\ pc = "gather"
    /\ calls[i] = Pending
    /\ calls' = [calls EXCEPT ![i] = Stalled]
    /\ UNCHANGED <<pc, query, lang, english_query, analysis, tasks,
                   agent_responses, genOut, synthesized, result, memory, nreq,
                   svc, webVars, synVars, endVars>>

\* asyncio.gather returns; the results are filed and the mapping returned
Gather ==
    /\ pc = "gather"
    /\ AllDone(calls)
    /\ agent_responses' = CollectResults(calls)
    /\ pc' = "synthesize"
    /\ UNCHANGED <<query, lang, english_query, analysis, tasks, calls, genOut,
                   synthesized, result, memory, nreq, svc, webVars, synVars, endVars>>

\* await _synthesize_responses
Synthesize ==
    /\ pc = "synthesize"
    /\ \E g \in GenCompletions :
          /\ genOut' = g
          /\ synthesized' = SynthesizeResponses(agent_responses, g, clock)
    /\ pc' = IF lang # "en" THEN "translate_answer" ELSE "format"
    /\ UNCHANGED <<query, lang, english_query, analysis, tasks, calls,
                   agent_responses, result, memory, nreq, svc, webVars, synVars, endVars>>

\* await translate_from_english(synthesized_response['answer'], ...)
TranslateAnswer ==
    /\ pc = "translate_answer"
    /\ \E ok \in BOOLEAN :
          IF ok /\ Has(synthesized, "answer")
          THEN /\ synthesized' = [synthesized EXCEPT
                     !["answer"] = TranslateFromEnglish(@, lang)]
               /\ pc' = "format"
               /\ UNCHANGED result
          ELSE /\ Fail("translate_from_english")
               /\ UNCHANGED synthesized
    /\ UNCHANGED <<query, lang, english_query, analysis, tasks, calls,
                   agent_responses, genOut, memory, nreq, svc, webVars, synVars, endVars>>

\* format_response, memory.save_context and the return statement
FormatAndSave ==
    /\ pc = "format"
    /\ \E fo \in FormatOutcomes, saved \in BOOLEAN :
          IF fo = "raise"
          THEN Fail("format_response") /\ UNCHANGED memory
          ELSE LET f == FormatResponse(synthesized, fo)
               IN  IF ~Has(f, "answer")
                   THEN Fail("KeyError answer") /\ UNCHANGED memory
                   ELSE IF ~saved
                   THEN Fail("save_context") /\ UNCHANGED memory
                   ELSE /\ memory' = SaveContext(memory, query, f["answer"])
                        /\ IF {"confidence", "sources"} \subseteq DOMAIN f
                              /\ Has(analysis.d, "type")
                           THEN /\ pc' = "done"
                                /\ result' = Returned(
                                     FinalResponse(f, lang, agent_responses,
                                                   analysis))
                           ELSE Fail("KeyError")
    /\ UNCHANGED <<query, lang, english_query, analysis, tasks, calls,
                   agent_responses, genOut, synthesized, nreq, svc, webVars, synVars, endVars>>

Next ==
    \/ Detect
    \/ TranslateQuery
    \/ Analyze
    \/ Route
    \/ \E i \in DOMAIN calls : AgentReturns(i)
    \/ \E i \in DOMAIN calls : AgentFails(i)
    \/ \E i \in DOMAIN calls : AgentStalls(i)
    \/ Gather
    \/ Synthesize
    \/ TranslateAnswer
    \/ FormatAndSave

Spec == Init /\ [][Next]_vars

\* the event loop runs whatever is runnable
FairSpec == Init /\ [][Next]_vars /\ WF_vars(Next)

\* a call that was cancelled before it finished
Cancelled == [cancelled |-> TRUE]

\* the task running process_query is cancelled while it awaits
\* asyncio.gather: gather cancels the calls that have not finished and
\* CancelledError, which `except Exception` does not catch, leaves
\* _route_to_agents and process_query
CancelDuringGather ==
    /\ pc = "gather"
    /\ \E i \in DOMAIN calls : calls[i] \in {Pending, Stalled}
    /\ calls' = [i \in DOMAIN calls |->
                   IF calls[i] \in {Pending, Stalled} THEN Cancelled
                   ELSE calls[i]]
    /\ pc' = "done"
    /\ result' = Raised("CancelledError")
    /\ UNCHANGED <<query, lang, english_query, analysis, tasks,
                   agent_responses, genOut, synthesized, memory, nreq, svc,
                   webVars, synVars, endVars>>

CancelNext ==
    \/ Next
    \/ CancelDuringGather

CancelSpec == Init /\ [][CancelNext]_vars

----------------------------------------------------------------------------
(* AIAgentService (Backend/app/services/ai_agents.py) *)

Categories == <<"weather", "crop", "financial", "policy">>

CategorySet == {Categories[i] : i \in 1..Len(Categories)}

\* agent_keywords, a few keywords of each list
AgentKeywords ==
    [weather |-> {"weather", "rain"},
     crop |-> {"crop", "seed"},
     financial |-> {"loan", "price"},
     policy |-> {"scheme", "PM-KISAN"}]

\* `keyword in query_lower` is a substring test on the lowered text
Lower(w) == IF w = "PM-KISAN" THEN "pm-kisan" ELSE w

SubstringOf(k, w) ==
    \/ k = w
    \/ <<k, w>> \in {<<"rain", "training">>, <<"crop", "cropping">>}

KeywordScore(cat, words) ==
    Cardinality({k \in AgentKeywords[cat] :
                    \E w \in words : SubstringOf(k, Lower(w))})

FirstBest_LastBest(score, cands) ==
    LET idx == {i \in 1..Len(Categories) : Categories[i] \in cands}
        top == {i \in idx : \A j \in idx :
                    score[Categories[j]] <= score[Categories[i]]}
    IN  Categories[CHOOSE i \in top : \A j \in top : j <= i]

\* max(scores, key=scores.get): the first key, in insertion order, among
\* those with the highest score
FirstBest(score, cands) ==
    LET idx == {i \in 1..Len(Categories) : Categories[i] \in cands}
        top == {i \in idx : \A j \in idx :
                    score[Categories[j]] <= score[Categories[i]]}
    IN  Categories[CHOOSE i \in top : \A j \in top : i <= j]

RECURSIVE SemanticBest_LastBest(_, _, _, _)
SemanticBest_LastBest(sim, i, best_match, best_score) ==
    IF i > Len(Categories) THEN best_match
    ELSE IF sim[Categories[i]] >= best_score
    THEN SemanticBest_LastBest(sim, i + 1, Categories[i], sim[Categories[i]])
    ELSE SemanticBest_LastBest(sim, i + 1, best_match, best_score)

\* the loop of the semantic fallback: a strictly larger similarity wins
RECURSIVE SemanticBest(_, _, _, _)
SemanticBest(sim, i, best_match, best_score) ==
    IF i > Len(Categories) THEN best_match
    ELSE IF sim[Categories[i]] > best_score
    THEN SemanticBest(sim, i + 1, Categories[i], sim[Categories[i]])
    ELSE SemanticBest(sim, i + 1, best_match, best_score)

ClassifyQuery(words, sim) ==
    LET score == [c \in CategorySet |-> KeywordScore(c, words)]
        scores == {c \in CategorySet : score[c] > 0}
    IN  IF scores # {} THEN FirstBest(score, scores)
        ELSE SemanticBest(sim, 1, "crop", 0)

\* the keyword path returns before self.model.encode is called
NeedsEmbedding(words) ==
    \A c \in CategorySet : KeywordScore(c, words) = 0

SvcQueries ==
    {[words |-> w, lang |-> l] :
        w \in {{"hello"}, {"rain"}, {"rain", "loan"}, {"training", "seed"},
               {"PM-KISAN"}, {"crop", "seed", "weather"}},
        l \in {"en", "hi", "ta"}}

Similarities ==
    {[weather |-> 0, crop |-> 0, financial |-> 0, policy |-> 0],
     [weather |-> 3, crop |-> 3, financial |-> 1, policy |-> 0],
     [weather |-> -2, crop |-> 0, financial |-> 4, policy |-> 4]}

FallbackResponseText(language) ==
    IF language = "hi" THEN Text("fallback", "hi") ELSE Text("fallback", "en")

\* language_processor.translate
Translate(t, source, target) == Text(t.text, target)

\* the except branch: it reads original_language, which is bound only once
\* detect_language has returned
SvcOnException(s, e) ==
    IF s.original_language = Unbound
    THEN Raised("UnboundLocalError")
    ELSE Returned([answer |-> FallbackResponseText(s.original_language),
                   original_query |-> s.query,
                   agent_type |-> "fallback",
                   language |-> s.original_language,
                   error |-> e,
                   confidence_score |-> 1])

SvcFail(s, e) == [s EXCEPT !.pc = "done", !.failed = e,
                           !.result = SvcOnException(s, e)]

\* the dict an agent's process_query returns
SvcAgentResponses(a) ==
    {[answer |-> Text(a, "en"), sources |-> <<a>>, confidence |-> c] :
        c \in AgentConfValues}
    \cup {[answer |-> Text(a, "en"), sources |-> <<a>>],
          [sources |-> <<a>>, confidence |-> 9]}

SvcResult(s, final, response) ==
    [answer |-> final,
     original_query |-> s.query,
     processed_query |-> s.processed_query,
     agent_type |-> s.agent_type,
     language |-> s.original_language,
     location |-> s.location,
     sources |-> Get(response, "sources", <<>>),
     confidence_score |-> Get(response, "confidence", 8),
     context_used |-> s.context_used,
     agent_confidence |-> Get(response, "confidence", 0)]

SvcInit ==
    /\ SynIdleInit
    /\ WebInit
    /\ svc = SvcIdle
    /\ health = HealthIdle
    /\ pc = "idle"
    /\ query = NoText
    /\ lang = ""
    /\ english_query = NoText
    /\ analysis = NoAnalysis
    /\ tasks = <<>>
    /\ calls = <<>>
    /\ agent_responses = <<>>
    /\ genOut = NoCompletion
    /\ synthesized = NoDict
    /\ result = NoResult
    /\ memory = <<>>
    /\ nreq = 0

\* process_query is entered: await detect_language
SvcDetect ==
    /\ svc.pc \in {"idle", "done"}
    /\ \E q \in SvcQueries, loc \in {"", "Pune"},
          det \in {"raise", "language", "nolanguage"} :
          LET s0 == [SvcIdle EXCEPT !.query = Text("q", q.lang),
                                    !.words = q.words,
                                    !.processed_query = Text("q", q.lang),
                                    !.location = loc]
              l == IF det = "language" THEN q.lang ELSE "en"
          IN  svc' = IF det = "raise"
                     THEN SvcFail(s0, "detect_language")
                     ELSE [s0 EXCEPT !.original_language = l,
                                     !.pc = IF l # "en" THEN "translate"
                                            ELSE "classify"]
    /\ UNCHANGED <<coordVars, webVars, synVars, endVars>>

\* await translate(query, original_language, 'en')
SvcTranslate ==
    /\ svc.pc = "translate"
    /\ \E ok \in BOOLEAN :
          svc' = IF ok
                 THEN [svc EXCEPT !.processed_query =
                          Translate(svc.query, svc.original_language, "en"),
                                  !.pc = "classify"]
                 ELSE SvcFail(svc, "translate")
    /\ UNCHANGED <<coordVars, webVars, synVars, endVars>>

\* extract_location when none was given, then _classify_query
SvcClassify ==
    /\ svc.pc = "classify"
    /\ \E locok \in BOOLEAN, encok \in BOOLEAN, sim \in Similarities :
          svc' = IF svc.location = "" /\ ~locok
                 THEN SvcFail(svc, "extract_location")
                 ELSE IF NeedsEmbedding(svc.words) /\ ~encok
                 THEN SvcFail(svc, "encode")
                 ELSE [svc EXCEPT
                         !.location = IF @ = "" THEN "extracted" ELSE @,
                         !.agent_type = ClassifyQuery(svc.words, sim),
                         !.similarity = IF NeedsEmbedding(svc.words)
                                        THEN sim ELSE NoSimilarity,
                         !.pc = "search"]
    /\ UNCHANGED <<coordVars, webVars, synVars, endVars>>

\* await knowledge_base.search_relevant_content
SvcSearch ==
    /\ svc.pc = "search"
    /\ \E n \in {-1, 0, 2} :
          svc' = IF n < 0
                 THEN SvcFail(svc, "search_relevant_content")
                 ELSE [svc EXCEPT !.context_used = n, !.pc = "agent"]
    /\ UNCHANGED <<coordVars, webVars, synVars, endVars>>

\* await agent.process_query, then response['answer']
SvcAgent ==
    /\ svc.pc = "agent"
    /\ \E ok \in BOOLEAN, r \in SvcAgentResponses(svc.agent_type) :
          svc' = IF ~ok THEN SvcFail(svc, "agent")
                 ELSE IF ~Has(r, "answer") THEN SvcFail(svc, "KeyError answer")
                 ELSE IF svc.original_language # "en"
                 THEN [svc EXCEPT !.response = r, !.pc = "translate_back"]
                 ELSE [svc EXCEPT !.response = r, !.pc = "done",
                          !.result = Returned(SvcResult(svc, r["answer"], r))]
    /\ UNCHANGED <<coordVars, webVars, synVars, endVars>>

\* await translate(response['answer'], 'en', original_language), then return
SvcTranslateBack ==
    /\ svc.pc = "translate_back"
    /\ \E ok \in BOOLEAN :
          svc' = IF ~ok THEN SvcFail(svc, "translate back")
                 ELSE [svc EXCEPT !.pc = "done",
                          !.result = Returned(SvcResult(svc,
                              Translate(svc.response["answer"], "en",
                                        svc.original_language),
                              svc.response))]
    /\ UNCHANGED <<coordVars, webVars, synVars, endVars>>

SvcNext ==
    \/ SvcDetect
    \/ SvcTranslate
    \/ SvcClassify
    \/ SvcSearch
    \/ SvcAgent
    \/ SvcTranslateBack

SvcSpec == SvcInit /\ [][SvcNext]_vars

----------------------------------------------------------------------------
(* The /query endpoint and the sessions (Frontend/src/utils/query_handler.py) *)

\* text_processor.clean_text
CleanText(raw) == IF raw = " rain " THEN "rain" ELSE raw

\* str.strip
Strip(t) == IF t \in {"", "   "} THEN "" ELSE IF t = " rain " THEN "rain" ELSE t

\* QueryRequest.query: Field(min_length=1, max_length=1000)
ValidRequest(raw) == raw # ""

\* QueryResponse.confidence: Field(ge=0.0, le=1.0)
ValidResponse(r) == Get(r, "confidence", 5) \in 0..10

\* the ids get_session_id has generated so far
Generated == {SessionIds[i] : i \in 1..nsess}

\* request.session_id: none, an id a response has carried, or a string
\* that never was a session id
RequestSessionIds == {"", "x"} \cup Generated

\* the query of a request as the coordinator receives it: the cleaned text,
\* with user_context['session_id']; the request's number tells equal texts
\* of different requests apart
HQuery(n, t, sid) == [id |-> n, text |-> t, session_id |-> sid]

\* what coordinator.process_query returns to the handler: the dict of its
\* try branch or the dict of its except branch
CoordinatorResponses ==
    {ErrorResponse("exc")}
    \cup {[answer |-> Text("answer", "en"), confidence |-> c, sources |-> <<>>,
           language |-> "en", query_type |-> "general"] : c \in GenConfValues}

GetSessionId_Adopt(sessions, sid, n) ==
    IF sid # "" THEN sid ELSE SessionIds[n + 1]

\* get_session_id: the id to use
GetSessionId(sessions, sid, n) ==
    IF sid # "" /\ sid \in DOMAIN sessions THEN sid ELSE SessionIds[n + 1]

\* get_session_id: active_sessions after the call
SessionsAfterGet(sessions, sid, n) ==
    IF sid # "" /\ sid \in DOMAIN sessions THEN sessions
    ELSE sessions @@ (SessionIds[n + 1] :> [queries |-> <<>>])

AppendExchange_StaleList(sessions, sid, q, answer) ==
    [sessions EXCEPT ![sid].queries =
        Append(SelectSeq(@, LAMBDA e : e.query.id < q.id),
               [query |-> q, response |-> answer])]

\* active_sessions[session_id]["queries"].append({...})
AppendExchange(sessions, sid, q, answer) ==
    [sessions EXCEPT ![sid].queries =
        Append(@, [query |-> q, response |-> answer])]

\* del active_sessions[session_id]
DeleteSession(sessions, sid) ==
    [s \in DOMAIN sessions \ {sid} |-> sessions[s]]

\* the handler ends with an HTTP status; the request object is gone
Respond(h, code) ==
    handlers' = [handlers EXCEPT ![h].pc = "done", ![h].status = code,
                                 ![h].requested = ""]

HBegin_SessionFirst(h) ==
    /\ handlers[h].pc \in {"idle", "done"}
    /\ nquery < QueryBudget
    /\ nquery' = nquery + 1
    /\ \E raw \in RawQueries, sid \in RequestSessionIds, cleaned \in BOOLEAN :
          LET known == sid # "" /\ sid \in DOMAIN active_sessions
              session_id == GetSessionId(active_sessions, sid, nsess)
              q == CleanText(raw)
              req == [HandlerIdle EXCEPT !.id = nquery + 1, !.raw = raw]
          IN  IF ~ValidRequest(raw)
              THEN /\ handlers' = [handlers EXCEPT ![h] =
                         [req EXCEPT !.pc = "done", !.status = 422]]
                   /\ UNCHANGED <<active_sessions, nsess>>
              ELSE IF ~cleaned
              THEN /\ handlers' = [handlers EXCEPT ![h] =
                         [req EXCEPT !.pc = "done", !.status = 500]]
                   /\ UNCHANGED <<active_sessions, nsess>>
              ELSE /\ known \/ nsess < Len(SessionIds)
                   /\ active_sessions' =
                         SessionsAfterGet(active_sessions, sid, nsess)
                   /\ nsess' = IF known THEN nsess ELSE nsess + 1
                   /\ handlers' = [handlers EXCEPT ![h] =
                         IF Strip(q) = ""
                         THEN [req EXCEPT !.pc = "done", !.status = 400]
                         ELSE [req EXCEPT !.pc = "awaiting", !.query = q,
                                          !.requested = sid,
                                          !.session_id = session_id]]
    /\ UNCHANGED <<endVars, synVars, pc, query, lang, english_query, analysis, tasks, calls,
                   agent_responses, genOut, synthesized, result, memory, nreq,
                   svc>>

\* POST /query up to `await coordinator.process_query`: validation of the
\* request model, clean_text, the empty-query check, get_session_id
HBegin(h) ==
    /\ handlers[h].pc \in {"idle", "done"}
    /\ nquery < QueryBudget
    /\ nquery' = nquery + 1
    /\ \E raw \in RawQueries, sid \in RequestSessionIds, cleaned \in BOOLEAN :
          LET known == sid # "" /\ sid \in DOMAIN active_sessions
              session_id == GetSessionId(active_sessions, sid, nsess)
              q == CleanText(raw)
              req == [HandlerIdle EXCEPT !.id = nquery + 1, !.raw = raw]
          IN  IF ~ValidRequest(raw)
              THEN /\ handlers' = [handlers EXCEPT ![h] =
                         [req EXCEPT !.pc = "done", !.status = 422]]
                   /\ UNCHANGED <<active_sessions, nsess>>
              ELSE IF ~cleaned
              THEN /\ handlers' = [handlers EXCEPT ![h] =
                         [req EXCEPT !.pc = "done", !.status = 500]]
                   /\ UNCHANGED <<active_sessions, nsess>>
              ELSE IF Strip(q) = ""
              THEN /\ handlers' = [handlers EXCEPT ![h] =
                         [req EXCEPT !.pc = "done", !.status = 400]]
                   /\ UNCHANGED <<active_sessions, nsess>>
              ELSE /\ known \/ nsess < Len(SessionIds)
                   /\ active_sessions' =
                         SessionsAfterGet(active_sessions, sid, nsess)
                   /\ nsess' = IF known THEN nsess ELSE nsess + 1
                   /\ handlers' = [handlers EXCEPT ![h] =
                         [req EXCEPT !.pc = "awaiting", !.query = q,
                                     !.requested = sid,
                                     !.session_id = session_id]]
    /\ UNCHANGED <<endVars, synVars, pc, query, lang, english_query, analysis, tasks, calls,
                   agent_responses, genOut, synthesized, result, memory, nreq,
                   svc>>

HFinish_Recreate(h) ==
    /\ handlers[h].pc = "awaiting"
    /\ \E r \in CoordinatorResponses :
          LET me == handlers[h]
              q == HQuery(me.id, me.query, me.session_id)
              live == (me.session_id :> [queries |-> <<>>]) @@ active_sessions
          IN  /\ memory' = IF Has(r, "error") THEN memory
                           ELSE SaveContext(memory, q, r["answer"])
              /\ active_sessions' =
                    AppendExchange(live, me.session_id, q, r["answer"])
              /\ Respond(h, IF ValidResponse(r) THEN 200 ELSE 500)
    /\ UNCHANGED <<endVars, synVars, pc, query, lang, english_query, analysis, tasks,
                   calls, agent_responses, genOut, synthesized, result, nreq,
                   svc, nquery, nsess>>

\* coordinator.process_query returns (its save_context included), the
\* exchange is appended to the session if it still exists, and the
\* QueryResponse is built
HFinish(h) ==
    /\ handlers[h].pc = "awaiting"
    /\ \E r \in CoordinatorResponses :
          LET me == handlers[h]
              q == HQuery(me.id, me.query, me.session_id)
          IN  /\ memory' = IF Has(r, "error") THEN memory
                           ELSE SaveContext(memory, q, r["answer"])
              /\ active_sessions' =
                    IF me.session_id \in DOMAIN active_sessions
                    THEN AppendExchange(active_sessions, me.session_id, q,
                                        r["answer"])
                    ELSE active_sessions
              /\ Respond(h, IF ValidResponse(r) THEN 200 ELSE 500)
    /\ UNCHANGED <<endVars, synVars, pc, query, lang, english_query, analysis, tasks, calls,
                   agent_responses, genOut, synthesized, result, nreq, svc,
                   nquery, nsess>>

\* DELETE /session/{session_id}: clear_session
ClearSession(sid) ==
    /\ active_sessions' = IF sid \in DOMAIN active_sessions
                          THEN DeleteSession(active_sessions, sid)
                          ELSE active_sessions
    /\ memory' = <<>>
    /\ UNCHANGED <<endVars, synVars, pc, query, lang, english_query, analysis, tasks, calls,
                   agent_responses, genOut, synthesized, result, nreq, svc,
                   handlers, nquery, nsess>>

WebNext ==
    \/ \E h \in DOMAIN handlers : HBegin(h)
    \/ \E h \in DOMAIN handlers : HFinish(h)
    \/ \E sid \in RequestSessionIds \ {""} : ClearSession(sid)

WebSpec == Init /\ [][WebNext]_vars

SerialInit ==
    /\ SynIdleInit
    /\ SerialWebInit
    /\ pc = "idle"
    /\ query = NoText
    /\ lang = ""
    /\ english_query = NoText
    /\ analysis = NoAnalysis
    /\ tasks = <<>>
    /\ calls = <<>>
    /\ agent_responses = <<>>
    /\ genOut = NoCompletion
    /\ synthesized = NoDict
    /\ result = NoResult
    /\ memory = <<>>
    /\ nreq = 0
    /\ svc = SvcIdle
    /\ health = HealthIdle

SerialSpec == SerialInit /\ [][WebNext]_vars

\* get_session_history: `except Exception` catches the HTTPException raised
\* in its own try block and raises HTTPException(500)
OnHistoryException(code) == 500

\* GET /session/{session_id}/history
GetSessionHistory(sid) ==
    /\ history' = [session_id |-> sid,
                   status |-> IF sid \notin DOMAIN active_sessions
                              THEN OnHistoryException(404)
                              ELSE 200]
    /\ UNCHANGED <<coordVars, svc, webVars, synVars, health>>

HistoryNext ==
    \/ WebNext
    \/ \E sid \in RequestSessionIds \ {""} : GetSessionHistory(sid)

HistorySpec == Init /\ [][HistoryNext]_vars

----------------------------------------------------------------------------
(* AIAgentService.get_agent_status *)

\* what one agent's health_check does: it returns a dict with a status, a
\* dict without one, or it raises
HealthOutcomes == {"healthy", "unhealthy", "nostatus", "raise"}

\* the entry of one agent in `status`
HealthEntry(outcome) ==
    CASE outcome = "healthy" -> [status |-> "healthy", error |-> ""]
      [] outcome = "unhealthy" -> [status |-> "unhealthy", error |-> "exc"]
      [] outcome = "nostatus" -> [error |-> ""]
      [] outcome = "raise" -> [status |-> "error", error |-> "exc"]

OverallStatus_AnyHealthy(status) ==
    IF \E k \in DOMAIN status : Get(status[k], "status", "") = "healthy"
    THEN "healthy" ELSE "degraded"

\* 'healthy' if all(s.get('status') == 'healthy' ...) else 'degraded'
OverallStatus(status) ==
    IF \A k \in DOMAIN status : Get(status[k], "status", "") = "healthy"
    THEN "healthy" ELSE "degraded"

\* get_agent_status is called: status = {}
StatusStart ==
    /\ health.i \in {0, Len(Categories) + 2}
    /\ health' = [i |-> 1, status |-> <<>>, result |-> NoDict]
    /\ UNCHANGED <<coordVars, svc, webVars, synVars, history>>

\* one turn of the loop over self.agents.items()
HealthCheck ==
    /\ health.i \in 1..Len(Categories)
    /\ \E o \in HealthOutcomes :
          health' = [health EXCEPT
                       !.i = @ + 1,
                       !.status = (Categories[health.i] :> HealthEntry(o)) @@ @]
    /\ UNCHANGED <<coordVars, svc, webVars, synVars, history>>

\* the loop has ended: the returned dict
StatusReturn ==
    /\ health.i = Len(Categories) + 1
    /\ health' = [health EXCEPT
                    !.i = @ + 1,
                    !.result = [overall_status |-> OverallStatus(health.status),
                                agents |-> health.status,
                                timestamp |-> clock]]
    /\ UNCHANGED <<coordVars, svc, webVars, synVars, history>>

StatusNext ==
    \/ StatusStart
    \/ HealthCheck
    \/ StatusReturn

StatusSpec == SvcInit /\ [][StatusNext]_vars

----------------------------------------------------------------------------
(* _synthesize_responses called twice on the same arguments *)

\* agent_responses as _route_to_agents can build it
SynMappings ==
    {<<>>,
     "crop_advisor" :> AgentSuccess("crop_advisor", 9),
     ("crop_advisor" :> AgentSuccess("crop_advisor", 2))
        @@ ("weather_agent" :> WrapperError("weather_agent")),
     ("crop_advisor" :> AgentCaught("crop_advisor"))
        @@ ("weather_agent" :> AgentSuccess("weather_agent", 9))}

\* the mapping and the output the generation step gives on every call
SynInit ==
    /\ clock = 0
    /\ syn \in {[ar |-> a, gen |-> g, out |-> <<>>] :
                   a \in SynMappings, g \in GenCompletions}
    /\ WebInit
    /\ pc = "idle"
    /\ query = NoText
    /\ lang = ""
    /\ english_query = NoText
    /\ analysis = NoAnalysis
    /\ tasks = <<>>
    /\ calls = <<>>
    /\ agent_responses = <<>>
    /\ genOut = NoCompletion
    /\ synthesized = NoDict
    /\ result = NoResult
    /\ memory = <<>>
    /\ nreq = 0
    /\ svc = SvcIdle
    /\ health = HealthIdle

\* time passes
Tick ==
    /\ clock < MaxClock
    /\ clock' = clock + 1
    /\ UNCHANGED <<endVars, coordVars, svc, webVars, syn>>

\* one call of _synthesize_responses
SynCall ==
    /\ Len(syn.out) < 2
    /\ syn' = [syn EXCEPT !.out =
                  Append(@, SynthesizeResponses(syn.ar, syn.gen, clock))]
    /\ UNCHANGED <<endVars, coordVars, svc, webVars, clock>>

SynNext ==
    \/ Tick
    \/ SynCall

SynSpec == SynInit /\ [][SynNext]_vars

\* C1: AIAgentService.process_query never raises: whichever step fails, it
\* returns the fallback response, agent_type 'fallback', confidence 0.1.
C1_ServiceNeverRaises ==
    svc.pc = "done" =>
        /\ svc.result.kind = "return"
        /\ svc.failed # "" =>
              /\ svc.result.value["agent_type"] = "fallback"
              /\ svc.result.value["confidence_score"] = 1

\* _classify_query has returned in the current call of process_query
Classified == svc.agent_type \notin {"", "fallback"}

\* C12: on the keyword path _classify_query returns a category with the
\* highest keyword-match count, and among categories that tie for it the
\* first in the order weather, crop, financial, policy.
C12_HighestCountFirstInOrder ==
    (Classified /\ ~NeedsEmbedding(svc.words)) =>
        LET order == <<"weather", "crop", "financial", "policy">>
            n(c) == KeywordScore(c, svc.words)
        IN  \E i \in 1..4 :
               /\ svc.agent_type = order[i]
               /\ \A j \in 1..4 : n(order[j]) <= n(order[i])
               /\ \A j \in 1..(i - 1) : n(order[j]) < n(order[i])

\* 'rain' and 'loan' give weather and financial one match each, and the
\* query went to the weather agent
C12_Witness ==
    /\ svc.pc = "agent"
    /\ svc.words = {"rain", "loan"}
    /\ KeywordScore("weather", svc.words) = KeywordScore("financial", svc.words)
    /\ svc.agent_type = "weather"

\* C14: _classify_query returns one category that is a key of the agents;
\* without a keyword match it returns 'crop' when no similarity is above
\* zero, and otherwise the first category in the order weather, crop,
\* financial, policy among those with the highest similarity.
C14_OneRegisteredCategory ==
    Classified =>
        LET order == <<"weather", "crop", "financial", "policy">>
            sim == svc.similarity
        IN  /\ svc.agent_type \in {"weather", "crop", "financial", "policy"}
            /\ NeedsEmbedding(svc.words) =>
                  IF \A j \in 1..4 : sim[order[j]] <= 0
                  THEN svc.agent_type = "crop"
                  ELSE \E i \in 1..4 :
                          /\ svc.agent_type = order[i]
                          /\ sim[order[i]] > 0
                          /\ \A j \in 1..4 : sim[order[j]] <= sim[order[i]]
                          /\ \A j \in 1..(i - 1) : sim[order[j]] < sim[order[i]]

\* no keyword matched, financial and policy are equally the most similar,
\* and the query went to the financial agent
C14_Witness ==
    /\ svc.pc = "agent"
    /\ NeedsEmbedding(svc.words)
    /\ svc.similarity["financial"] = 4
    /\ svc.similarity["policy"] = 4
    /\ svc.agent_type = "financial"

\* no keyword matched, no similarity is above zero: the crop agent
C14_WitnessDefault ==
    /\ svc.pc = "agent"
    /\ NeedsEmbedding(svc.words)
    /\ \A c \in CategorySet : svc.similarity[c] <= 0
    /\ svc.agent_type = "crop"

\* the response is the selected agent's answer, not the fallback response
CarriesAgentAnswer ==
    /\ svc.result.kind = "return"
    /\ svc.result.value["agent_type"] = svc.agent_type
    /\ svc.result.value["agent_type"] \in CategorySet
    /\ svc.result.value["answer"].text = svc.agent_type

\* C15: when a translation call fails (query to English, or answer back to
\* the source language), the selected agent is still called and the response
\* carries the agent's answer, not the fallback response.
C15_TranslationFailureTolerated ==
    (svc.pc = "done" /\ svc.failed \in {"translate", "translate back"}) =>
        /\ svc.response # NoDict
        /\ CarriesAgentAnswer

\* C16: when the knowledge-base search fails, the selected agent is still
\* called, with an empty context list, and its answer is returned.
C16_SearchFailureTolerated ==
    (svc.pc = "done" /\ svc.failed = "search_relevant_content") =>
        /\ svc.response # NoDict
        /\ svc.result.kind = "return"
        /\ svc.result.value["agent_type"] = svc.agent_type
        /\ Get(svc.result.value, "context_used", -1) = 0

----------------------------------------------------------------------------
(* Properties of AgentCoordinator *)

\* _synthesize_responses has just returned and its value is untouched
JustSynthesized ==
    \/ pc = "translate_answer"
    \/ pc = "format" /\ lang = "en"

Failures(ar) == {k \in DOMAIN ar : Has(ar[k], "error")}

SeqToSet(q) == {q[i] : i \in DOMAIN q}

\* C2: AgentCoordinator.process_query never raises: whatever step fails, it
\* ends with one returned dict that has an answer, a confidence and sources.
C2_ProcessQueryNeverRaises ==
    /\ result.kind # "raise"
    /\ pc = "done" =>
          /\ result.kind = "return"
          /\ {"answer", "confidence", "sources"} \subseteq DOMAIN result.value

\* a request whose memory save failed has ended with the error response
C2_Witness ==
    /\ pc = "done"
    /\ result.kind = "return"
    /\ Get(result.value, "error", "") = "save_context"
    /\ synthesized # NoDict

\* C3: when a selected agent raises, every selected agent has been called and
\* has an outcome, every outcome (the other agents' results and the failing
\* agent's error entry) is a value of the returned mapping, and no entry is
\* lost.
C3_FailureIsolatedAndKept ==
    (pc = "synthesize" /\ \E i \in DOMAIN calls : calls[i] = WrapperError(tasks[i]))
    => /\ \A i \in DOMAIN calls :
             /\ calls[i] \notin {Pending, Stalled}
             /\ \E k \in DOMAIN agent_responses : agent_responses[k] = calls[i]
       /\ Cardinality(DOMAIN agent_responses) = Len(tasks)

\* three agents selected, one raised, two succeeded, all three entries kept
C3_Witness ==
    /\ pc = "synthesize"
    /\ Len(tasks) = 3
    /\ Cardinality({i \in DOMAIN calls : calls[i] = WrapperError(tasks[i])}) = 1
    /\ Cardinality(Successes(agent_responses)) = 2
    /\ Cardinality(Failures(agent_responses)) = 1

\* C4: when one selected agent never completes and the others have succeeded,
\* _route_to_agents still returns (its deadline ends the slow call) and the
\* synthesis step is reached.
C4_RouteReturnsDespiteStalledAgent ==
    (/\ pc = "gather"
     /\ \E i \in DOMAIN calls :
           /\ calls[i] = Stalled
           /\ \A j \in DOMAIN calls \ {i} :
                 calls[j] \notin {Pending, Stalled} /\ ~Has(calls[j], "error"))
        ~> (pc = "synthesize")

\* C5: every entry of the returned mapping is keyed by the agent that
\* produced it, so the keys are exactly the agents that were called.
C5_KeyedByProducer ==
    pc = "synthesize" =>
        /\ DOMAIN agent_responses = SeqToSet(tasks)
        /\ \A i \in DOMAIN tasks : agent_responses[tasks[i]] = calls[i]

\* C6: synthesis starts only when every selected agent call has an outcome
\* and the mapping holds one entry per selected agent.
C6_SynthesisSeesAllOutcomes ==
    pc \in {"synthesize", "translate_answer", "format"} =>
        /\ \A i \in DOMAIN calls : calls[i] \notin {Pending, Stalled}
        /\ \A k \in DOMAIN agent_responses :
              agent_responses[k] \notin {Pending, Stalled}
        /\ Cardinality(DOMAIN agent_responses) = Len(tasks)

\* synthesis is about to run on three outcomes, failures among them
C6_Witness ==
    /\ pc = "synthesize"
    /\ Len(tasks) = 3
    /\ Failures(agent_responses) # {}
    /\ Successes(agent_responses) # {}

C9_AllFailedLowConfidence ==
    (/\ JustSynthesized
     /\ tasks # <<>>
     /\ \A i \in DOMAIN calls : Has(calls[i], "error"))
    => /\ Has(synthesized, "confidence")
       /\ synthesized["confidence"] \in 1..2
       /\ Get(synthesized, "sources", <<"?">>) = <<>>
       /\ Has(synthesized, "agents_consulted")
       /\ SeqToSet(synthesized["agents_consulted"]) = SeqToSet(tasks)

\* C10: when generation raises or its output does not parse, the response's
\* answer and sources are those of one entry without an error marker if
\* there is one, and never the answer of an entry that carries the marker.
C10_FallbackSkipsErrorEntries ==
    (JustSynthesized /\ genOut.kind \in {"raise", "unparseable"}) =>
        /\ {"answer", "confidence", "sources"} \subseteq DOMAIN synthesized
        /\ Successes(agent_responses) # {} =>
              \E k \in Successes(agent_responses) :
                  /\ synthesized["answer"] = agent_responses[k]["answer"]
                  /\ synthesized["sources"] = agent_responses[k]["sources"]
        /\ \A k \in Failures(agent_responses) :
              Has(agent_responses[k], "answer") =>
                  synthesized["answer"] # agent_responses[k]["answer"]

\* crop_advisor's entry carries the error marker and an answer, another
\* agent succeeded, generation failed: the other agent's answer is returned
C10_Witness ==
    /\ JustSynthesized
    /\ genOut.kind \in {"raise", "unparseable"}
    /\ Has(agent_responses, "crop_advisor")
    /\ Has(agent_responses["crop_advisor"], "error")
    /\ Has(agent_responses["crop_advisor"], "answer")
    /\ \E k \in Successes(agent_responses) :
          synthesized["answer"] = agent_responses[k]["answer"]

\* the agent that produced an entry, as the entry itself reports it
ProducedBy(ar, a) == {k \in Successes(ar) : ar[k]["agent"] = a}

\* C11: when generation failed and several agents succeeded, the fallback
\* prefers a successful weather result over a successful crop result.
C11_WeatherPreferredOverCrop ==
    (/\ JustSynthesized
     /\ ~GenSucceeded(genOut)
     /\ ProducedBy(agent_responses, "weather_agent") # {}
     /\ ProducedBy(agent_responses, "crop_advisor") # {})
    => \E k \in ProducedBy(agent_responses, "weather_agent") :
          synthesized["answer"] = agent_responses[k]["answer"]

\* C11 amended: when generation failed and several agents succeeded, the
\* fallback is the entry without error marker whose key comes first in the
\* order crop_advisor, weather_agent, finance_agent, pest_disease_agent; a
\* successful crop result is preferred over a successful weather result.
C11_CropPreferredOverWeather ==
    (/\ JustSynthesized
     /\ ~GenSucceeded(genOut)
     /\ Cardinality(Successes(agent_responses)) >= 2)
    => LET order == <<"crop_advisor", "weather_agent", "finance_agent",
                      "pest_disease_agent">>
           ok == Successes(agent_responses)
       IN  /\ \E i \in 1..4 :
                 /\ order[i] \in ok
                 /\ \A j \in 1..(i - 1) : order[j] \notin ok
                 /\ synthesized["answer"] = agent_responses[order[i]]["answer"]
                 /\ synthesized["sources"] = agent_responses[order[i]]["sources"]
           /\ (/\ ProducedBy(agent_responses, "weather_agent") # {}
               /\ ProducedBy(agent_responses, "crop_advisor") # {})
              => \E k \in ProducedBy(agent_responses, "crop_advisor") :
                    synthesized["answer"] = agent_responses[k]["answer"]

\* crop advisor and weather agent both succeeded, generation failed, and
\* the response carries the crop advisor's answer
C11_Witness ==
    /\ JustSynthesized
    /\ ~GenSucceeded(genOut)
    /\ ProducedBy(agent_responses, "weather_agent") # {}
    /\ ProducedBy(agent_responses, "crop_advisor") # {}
    /\ synthesized["answer"] = Text("crop_advisor", "en")

----------------------------------------------------------------------------
(* Properties of the /query endpoint and the sessions *)

\* C17: the stored history of a session holds at most 5 exchanges.
C17_HistoryAtMostFive ==
    \A s \in DOMAIN active_sessions :
        Len(active_sessions[s].queries) <= 5

\* the saved exchanges of the requests of one session
MemoryOf(mem, s) == SelectSeq(mem, LAMBDA e : e.input.session_id = s)

\* C18: clear_session(A) leaves the stored history and the conversational
\* memory of every other session unchanged.
C18_ClearLeavesOtherSessions ==
    [][\A a \in DOMAIN active_sessions :
          a \notin DOMAIN active_sessions' =>
             \A b \in DOMAIN active_sessions \ {a} :
                /\ b \in DOMAIN active_sessions'
                /\ active_sessions'[b] = active_sessions[b]
                /\ MemoryOf(memory', b) = MemoryOf(memory, b)]_vars

\* the positions of a request's exchange in the queries list of its session
ExchangesOf(h) ==
    {i \in DOMAIN active_sessions[handlers[h].session_id].queries :
        active_sessions[handlers[h].session_id].queries[i].query.id
            = handlers[h].id}

\* the handler has come back from the coordinator and has ended
Completed(h) == handlers[h].pc = "done" /\ handlers[h].session_id # ""

\* C19: when two requests for one session that is not cleared have both
\* completed, overlapping or not, the session's queries list holds the
\* exchange of each of them exactly once.
C19_NoLostUpdate ==
    \A h1 \in DOMAIN handlers, h2 \in DOMAIN handlers :
        (/\ h1 # h2
         /\ Completed(h1)
         /\ Completed(h2)
         /\ handlers[h1].session_id = handlers[h2].session_id
         /\ handlers[h1].session_id \in DOMAIN active_sessions)
        => /\ Cardinality(ExchangesOf(h1)) = 1
           /\ Cardinality(ExchangesOf(h2)) = 1

\* two requests of one session overlapped: the one that began later was
\* appended first, and both exchanges are in the list
C19_Witness ==
    \E h1 \in DOMAIN handlers, h2 \in DOMAIN handlers :
        /\ Completed(h1)
        /\ Completed(h2)
        /\ handlers[h1].id < handlers[h2].id
        /\ handlers[h1].session_id = handlers[h2].session_id
        /\ handlers[h1].session_id \in DOMAIN active_sessions
        /\ \E i \in ExchangesOf(h1), j \in ExchangesOf(h2) : j < i

\* C20: a request whose query is empty or whitespace-only after cleaning
\* ends with status 400 in the step that begins it, before any session is
\* created and before the coordinator is called: active_sessions and the
\* conversation memory are unchanged.
C20_EmptyQueryRejected ==
    [][\A h \in DOMAIN handlers :
          (/\ nquery' = nquery + 1
           /\ handlers'[h].id = nquery'
           /\ ValidRequest(handlers'[h].raw)
           /\ handlers'[h].status # 500
           /\ Strip(CleanText(handlers'[h].raw)) = "")
          => /\ handlers'[h].pc = "done"
             /\ handlers'[h].status = 400
             /\ active_sessions' = active_sessions
             /\ nsess' = nsess
             /\ memory' = memory]_vars

\* a whitespace-only query has been rejected with 400 while a session
\* exists and another request is awaiting the coordinator
C20_Witness ==
    \E h \in DOMAIN handlers, g \in DOMAIN handlers :
        /\ handlers[h].pc = "done"
        /\ handlers[h].raw = "   "
        /\ handlers[h].status = 400
        /\ handlers[g].pc = "awaiting"
        /\ handlers[g].id < handlers[h].id
        /\ DOMAIN active_sessions # {}

\* C21: a request with a non-empty query that has come back from the
\* coordinator ends with a success status, whatever the coordinator returned.
C21_NonEmptyQuerySucceeds ==
    \A h \in DOMAIN handlers :
        (Completed(h) /\ Strip(handlers[h].query) # "") =>
            handlers[h].status = 200

----------------------------------------------------------------------------
(* Further properties of AgentCoordinator *)

\* C22: every confidence in an agent result and in the synthesized response
\* lies in [0,1], the values taken from the generation output included.
C22_ConfidenceInUnitInterval ==
    /\ \A k \in DOMAIN agent_responses :
          Get(agent_responses[k], "confidence", 0) \in 0..10
    /\ JustSynthesized => Get(synthesized, "confidence", 0) \in 0..10

\* a response without the time stamp of the call that built it
Unstamped(r) == [k \in DOMAIN r \ {"synthesis_timestamp"} |-> r[k]]

\* C23: two calls of _synthesize_responses on the same mapping, against the
\* same generation output, return two equal responses.
C23_SynthesisRepeatable ==
    Len(syn.out) = 2 => syn.out[1] = syn.out[2]

\* C23 amended: the two responses are equal in every field but
\* synthesis_timestamp, which is the time of each call; responses of the
\* except branch carry no time stamp and are equal.
C23_RepeatableButForTimestamp ==
    Len(syn.out) = 2 =>
        /\ Unstamped(syn.out[1]) = Unstamped(syn.out[2])
        /\ ~GenSucceeded(syn.gen) => syn.out[1] = syn.out[2]

\* two calls at different times whose responses differ in the time stamp
\* only
C23_Witness ==
    /\ Len(syn.out) = 2
    /\ GenSucceeded(syn.gen)
    /\ syn.out[1]["synthesis_timestamp"] # syn.out[2]["synthesis_timestamp"]
    /\ Unstamped(syn.out[1]) = Unstamped(syn.out[2])

\* C24: when the request is cancelled while some agent calls are pending,
\* the pending calls are cancelled and the results of the agents that had
\* completed are passed to the synthesis step, which answers from them.
C24_CancelKeepsCollectedResults ==
    (/\ pc = "done"
     /\ \E i \in DOMAIN calls : calls[i] = Cancelled
     /\ \E i \in DOMAIN calls : Has(calls[i], "answer"))
    => /\ \A i \in DOMAIN calls : calls[i] \notin {Pending, Stalled}
       /\ \A i \in DOMAIN calls :
             Has(calls[i], "answer") =>
                \E k \in DOMAIN agent_responses : agent_responses[k] = calls[i]
       /\ synthesized # NoDict
       /\ result.kind = "return"

\* _route_to_agents has built its tasks for the current request
Routed == pc \in {"gather", "synthesize"}

\* C25: for every analysis with a 'type' and a 'required_agents' list at
\* least one agent is called; when the analysis selects no agent, the crop
\* advisor is called.
C25_AgentOfLastResort ==
    (/\ Routed
     /\ analysis.isobj
     /\ Has(analysis.d, "type")
     /\ Has(analysis.d, "required_agents"))
    => /\ tasks # <<>>
       /\ (\A a \in Agents : ~Selected(analysis, a)) =>
             tasks = <<"crop_advisor">>

\* the analysis did not come from a usable generation output: it is the
\* default of the except branch, or a JSON object without 'type' or without
\* 'required_agents'
AnalysisDegraded ==
    /\ analysis.isobj
    /\ \/ analysis = DefaultAnalysis
       \/ ~Has(analysis.d, "type")
       \/ ~Has(analysis.d, "required_agents")

\* C26: such an analysis is not fatal: the crop advisor is among the agents
\* called and the request does not end with the technical-error response on
\* account of the analysis.
C26_DegradedAnalysisNonFatal ==
    AnalysisDegraded =>
        /\ Routed => "crop_advisor" \in SeqToSet(tasks)
        /\ ~(/\ pc = "done"
             /\ Get(result.value, "error", "") \in {"route", "KeyError"})

----------------------------------------------------------------------------
(* Further properties of the /query endpoint and the sessions *)

\* C27: when a request comes back from the coordinator and its session has
\* been cleared meanwhile, its exchange is appended to no session and the
\* session is not created again: active_sessions is unchanged.
C27_ClearedSessionStaysAbsent ==
    [][\A h \in DOMAIN handlers :
          (/\ handlers[h].pc = "awaiting"
           /\ handlers'[h].pc = "done"
           /\ handlers[h].session_id \notin DOMAIN active_sessions)
          => /\ active_sessions' = active_sessions
             /\ handlers[h].session_id \notin DOMAIN active_sessions']_vars

\* a request has completed with status 200 after its session was cleared,
\* while another session holds an exchange
C27_Witness ==
    \E h \in DOMAIN handlers :
        /\ Completed(h)
        /\ handlers[h].status = 200
        /\ handlers[h].session_id \notin DOMAIN active_sessions
        /\ \E s \in DOMAIN active_sessions : active_sessions[s].queries # <<>>

\* C28: the id get_session_id returns is a key of active_sessions when it
\* returns; a supplied id that is known is returned and nothing is created;
\* otherwise the supplied id is not adopted: a session with an id never
\* generated before and an empty queries list is created.
C28_SessionIdIsLive ==
    [][\A h \in DOMAIN handlers :
          (handlers[h].pc # "awaiting" /\ handlers'[h].pc = "awaiting") =>
             LET sid == handlers'[h].requested
                 s == handlers'[h].session_id
             IN  /\ s \in DOMAIN active_sessions'
                 /\ IF sid # "" /\ sid \in DOMAIN active_sessions
                    THEN /\ s = sid
                         /\ active_sessions' = active_sessions
                    ELSE /\ s \notin Generated
                         /\ s \notin DOMAIN active_sessions
                         /\ sid # "" => s # sid
                         /\ DOMAIN active_sessions'
                               = DOMAIN active_sessions \cup {s}
                         /\ active_sessions'[s].queries = <<>>
                         /\ \A t \in DOMAIN active_sessions :
                               active_sessions'[t] = active_sessions[t]]_vars

\* a request that supplied the id of a cleared session runs on a new session
C28_Witness ==
    \E h \in DOMAIN handlers :
        /\ handlers[h].pc = "awaiting"
        /\ handlers[h].requested \in Generated
        /\ handlers[h].requested \notin DOMAIN active_sessions
        /\ handlers[h].session_id # handlers[h].requested
        /\ handlers[h].session_id \in DOMAIN active_sessions

\* C29: get_session_history for an id that is not in active_sessions answers
\* with 404, not with 500.
C29_UnknownSessionIs404 ==
    [][(history' # history
        /\ history'.session_id \notin DOMAIN active_sessions)
       => history'.status = 404]_vars

----------------------------------------------------------------------------
(* Properties of AIAgentService.get_agent_status *)

\* C30: get_agent_status returns an entry for every registered agent, an
\* 'error' entry for an agent whose health check raised, and overall_status
\* 'healthy' exactly when every entry has status 'healthy', else 'degraded'.
C30_StatusForEveryAgent ==
    /\ \A j \in 1..Len(Categories) :
          j < health.i => Categories[j] \in DOMAIN health.status
    /\ health.result # NoDict =>
          LET r == health.result
              registered == {"weather", "crop", "financial", "policy"}
              allHealthy == \A k \in registered :
                               /\ Has(r["agents"][k], "status")
                               /\ r["agents"][k]["status"] = "healthy"
          IN  /\ DOMAIN r["agents"] = registered
              /\ r["overall_status"] \in {"healthy", "degraded"}
              /\ r["overall_status"] = "healthy" <=> allHealthy

\* the weather agent's health check raised, the other three are healthy:
\* four entries, weather's is 'error', overall 'degraded'
C30_Witness ==
    /\ health.result # NoDict
    /\ health.result["agents"]["weather"]["status"] = "error"
    /\ \A k \in {"crop", "financial", "policy"} :
          Get(health.result["agents"][k], "status", "") = "healthy"
    /\ health.result["overall_status"] = "degraded"

====
